---- MODULE Spec2Model ----
(***************************************************************************)
(* hann-rs: Hann window generation (src/src/hann_window.rs) and the sum of *)
(* squares of a window (src/src/sum_of_hann_window_squares.rs), each with  *)
(* a lazily initialised lookup table for the lengths 256 .. 4096.          *)
(*                                                                         *)
(* Representation.                                                         *)
(*  - A Vec<f32> is a sequence; Rust index i is TLA+ index i + 1.          *)
(*  - An f32 is a fixed-point integer in units of 1/ONE.  Products and     *)
(*    quotients are rounded to that resolution, so arithmetic is inexact,  *)
(*    as in f32:                                                           *)
(*    a coefficient computed at index N-1-i directly generally differs     *)
(*    from the one computed at index i.                                    *)
(*  - usize is modelled 31 bits wide (TLC integers are 32-bit signed);     *)
(*    every length the code compares against usize::MAX / 2 and 1 << 24    *)
(*    keeps its order relative to those two thresholds.                    *)
(***************************************************************************)
EXTENDS Integers, Sequences, FiniteSets, TLC

(***************************************************************************)
(* Bounds of the model                                                     *)
(***************************************************************************)
\* longest window outside the lookup table that a caller requests
MaxLen == 5
\* longest window the stepwise run of calculate_hann_window is started on
MaxLoopLen == 21
\* number of threads calling the public functions concurrently
NumThreads == 2

(***************************************************************************)
(* f32 arithmetic, fixed point                                             *)
(***************************************************************************)
\* 1.0
ONE == 16384
\* 0.5
HALF == ONE \div 2
\* std::f32::consts::PI
PI == 51472

\* a * b, rounded to the nearest representable value
MulFx(a, b) == (a * b + ONE \div 2) \div ONE

\* a / n for a whole number n > 0, rounded to the nearest representable value
DivFx(a, n) == (2 * a + n) \div (2 * n)

\* cos on [0, PI/2]: 1 - x^2/2 (1 - x^2/12 (1 - x^2/30 (1 - x^2/56)))
CosQuarter(x) ==
  LET x2 == MulFx(x, x)
      t4 == ONE - DivFx(x2, 56)
      t3 == ONE - DivFx(MulFx(x2, t4), 30)
      t2 == ONE - DivFx(MulFx(x2, t3), 12)
  IN  ONE - DivFx(MulFx(x2, t2), 2)

\* f32::cos, by reduction to the first quadrant
Cos(x) ==
  LET r == x % (2 * PI)
      h == IF r > PI THEN 2 * PI - r ELSE r
  IN  IF h > PI \div 2 THEN 0 - CosQuarter(PI - h) ELSE CosQuarter(h)

\* x.powi(2)
Powi2(x) == MulFx(x, x)

\* TLC evaluates LET definitions and arguments on demand; Strict(v) is TRUE
\* and makes v be evaluated where it stands, so that the iterations of a
\* loop are evaluated first to last.
Strict(v) == v = v

(***************************************************************************)
(* usize and the error type                                                *)
(***************************************************************************)
\* usize::MAX
USIZE_MAX == 2147483647
\* 1 << 24
MAX_WINDOW_LENGTH == 16777216

HannWindowError ==
  {"WindowLengthTooSmall", "WindowLengthTooLarge", "MemoryAllocationError"}

\* Result<Vec<f32>, HannWindowError>
Ok(v) == [tag |-> "Ok", val |-> v, err |-> "none"]
Err(e) == [tag |-> "Err", val |-> <<>>, err |-> e]

\* Validate with the policy ceiling checked before the allocation guard
ValidateLargeFirst(window_length) ==
  IF window_length <= 1 THEN "WindowLengthTooSmall"
  ELSE IF window_length > MAX_WINDOW_LENGTH THEN "WindowLengthTooLarge"
  ELSE IF window_length > USIZE_MAX \div 2 THEN "MemoryAllocationError"
  ELSE "none"

\* the three checks both functions open with: the error returned, or "none"
Validate(window_length) ==
  IF window_length <= 1 THEN "WindowLengthTooSmall"
  ELSE IF window_length > USIZE_MAX \div 2 THEN "MemoryAllocationError"
  ELSE IF window_length > MAX_WINDOW_LENGTH THEN "WindowLengthTooLarge"
  ELSE "none"

(***************************************************************************)
(* calculate_hann_window                                                   *)
(***************************************************************************)
\* half_length without the correction for odd lengths
half_length_floor(window_length) == window_length \div 2

\* (window_length + (window_length % 2)) / 2
half_length(window_length) == (window_length + (window_length % 2)) \div 2

\* (PI * 2.0) / ((window_length - 1) as f32)
scaling_factor(window_length) == DivFx(PI * 2, window_length - 1)

\* vec![0.0; window_length]
ZeroVec(window_length) == SubSeq([k \in 1..window_length |-> 0], 1, window_length)

\* 0.5 - 0.5 * cos(scaling_factor * i)
Coefficient(window_length, i) ==
  HALF - MulFx(HALF, Cos(scaling_factor(window_length) * i))

\* the indices one iteration of the loop writes, in order
WriteIndices(window_length, i) == <<i, window_length - 1 - i>>

\* LoopBody with the mirrored coefficient evaluated by the formula instead of
\* copied from window[i]
LoopBodyNoMirror(s, window_length, i) ==
  LET at == WriteIndices(window_length, i)
      w1 == [s.window EXCEPT ![at[1] + 1] = Coefficient(window_length, i)]
  IN  [window |-> [w1 EXCEPT ![at[2] + 1] = Coefficient(window_length, at[2])],
       cosEvals |-> s.cosEvals + 2]

\* one iteration of the loop, on the loop's state (the window, and how many
\* cosines were evaluated so far):
\*   window[i] = 0.5 - 0.5 * cos(..); window[window_length - 1 - i] = window[i]
LoopBody(s, window_length, i) ==
  LET at == WriteIndices(window_length, i)
      w1 == [s.window EXCEPT ![at[1] + 1] = Coefficient(window_length, i)]
  IN  [window |-> [w1 EXCEPT ![at[2] + 1] = w1[i + 1]],
       cosEvals |-> s.cosEvals + 1]

\* the loop's state before the first iteration
LoopStart(window_length) ==
  [window |-> ZeroVec(window_length), cosEvals |-> 0]

\* the iterations lo .. hi-1 of `for i in 0..half_length`, in order
RECURSIVE ForRange(_, _, _, _)
ForRange(s, window_length, lo, hi) ==
  IF lo >= hi THEN s
  ELSE IF hi - lo = 1 THEN LoopBody(s, window_length, lo)
  ELSE LET mid == lo + (hi - lo) \div 2
           first == ForRange(s, window_length, lo, mid)
       IN  IF Strict(first) THEN ForRange(first, window_length, mid, hi)
           ELSE first

\* calculate_hann_window with what it does besides returning: the number of
\* vectors it allocates and of cosines it evaluates
CalculateRun(window_length) ==
  LET e == Validate(window_length)
  IN  IF e # "none"
      THEN [result |-> Err(e), allocs |-> 0, cosEvals |-> 0]
      ELSE LET s == ForRange(LoopStart(window_length), window_length,
                             0, half_length(window_length))
           IN  [result |-> Ok(s.window), allocs |-> 1, cosEvals |-> s.cosEvals]

\* const HANN_WINDOW_PRECOMPUTED_LENGTHS: [usize; 5], in hann_window.rs
HANN_WINDOW_PRECOMPUTED_LENGTHS == <<256, 512, 1024, 2048, 4096>>

\* the second array with a length the first does not hold
SQ_LENGTHS_DRIFTED == <<256, 512, 1024, 2048, 8192>>

\* const HANN_WINDOW_PRECOMPUTED_LENGTHS: [usize; 5], the array of the same
\* name in sum_of_hann_window_squares.rs
SQ_PRECOMPUTED_LENGTHS == <<256, 512, 1024, 2048, 4096>>

PrecomputedSet ==
  {HANN_WINDOW_PRECOMPUTED_LENGTHS[k] : k \in DOMAIN HANN_WINDOW_PRECOMPUTED_LENGTHS}

\* the lengths callers pass: up to a bound, those of the table, and invalid
\* ones on both sides of each threshold
InvalidLengths ==
  {0, 1, MAX_WINDOW_LENGTH + 1, 2 * MAX_WINDOW_LENGTH, USIZE_MAX \div 2,
   USIZE_MAX \div 2 + 1, USIZE_MAX}
Lengths == (0..MaxLen) \cup PrecomputedSet \cup InvalidLengths
LoopLengths == (0..MaxLoopLen) \cup PrecomputedSet \cup InvalidLengths

\* calculate_hann_window is a pure function: its runs on the lengths that
\* callers pass are tabulated once, and Calculate looks them up.
CalculateRuns ==
  [n \in Lengths \cup LoopLengths |-> CalculateRun(n)] @@ <<>>

Calculate(window_length) ==
  IF window_length \in DOMAIN CalculateRuns
  THEN CalculateRuns[window_length]
  ELSE CalculateRun(window_length)

calculate_hann_window(window_length) == Calculate(window_length).result

(***************************************************************************)
(* sum of squares                                                          *)
(***************************************************************************)
\* iter().map(|&x| x.powi(2)).sum() over a vector v.  Sum[<<lo, hi>>] is the
\* sum over the elements lo .. hi-1; addition is exact in this
\* representation, so the sum does not depend on the order in which the
\* elements are added.
SumOfSquaresOf(v) ==
  LET Sum[r \in (0..Len(v)) \X (0..Len(v))] ==
        IF r[1] >= r[2] THEN 0
        ELSE IF r[2] - r[1] = 1 THEN Powi2(v[r[1] + 1])
        ELSE Sum[<<r[1], r[1] + (r[2] - r[1]) \div 2>>]
               + Sum[<<r[1] + (r[2] - r[1]) \div 2, r[2]>>]
  IN  Sum[<<0, Len(v)>>]

\* SumOfSquaresOf is a pure function: its values on the windows that
\* calculate_hann_window returns for the lengths of the table are tabulated
\* once.
SumOfSquaresRuns ==
  [n \in PrecomputedSet |-> SumOfSquaresOf(CalculateRuns[n].result.val)] @@ <<>>

\* hann_window.iter().map(|&x| x.powi(2)).sum()
SumOfSquares(hann_window) ==
  IF /\ Len(hann_window) \in DOMAIN SumOfSquaresRuns
     /\ hann_window = CalculateRuns[Len(hann_window)].result.val
  THEN SumOfSquaresRuns[Len(hann_window)]
  ELSE SumOfSquaresOf(hann_window)

(***************************************************************************)
(* HashMap                                                                 *)
(***************************************************************************)
\* HashMap::new()
EmptyTable == <<>>

\* table.insert(key, value): an existing entry for the key is replaced
Insert(table, key, value) == (key :> value) @@ table

(***************************************************************************)
(* State                                                                   *)
(***************************************************************************)
Threads == 1..NumThreads

VARIABLES
  \* lazy_static HANN_WINDOW_LOOKUP_TABLE: the state of its Once, the `table`
  \* its initializer is building (and at which element of the lengths), the
  \* value stored in the static, and how often the initializer was started
  winOnce, winIdx, winLocal, HANN_WINDOW_LOOKUP_TABLE, winRuns,
  \* lazy_static HANN_WINDOW_SUM_OF_SQUARES, likewise
  sqOnce, sqIdx, sqLocal, HANN_WINDOW_SUM_OF_SQUARES, sqRuns,
  \* each thread: where it is, the public function it is in, that function's
  \* length argument, the Result of get_hann_window / calculate_hann_window,
  \* the f32 returned by get_hann_window_sum_squares (-1: none yet), and the
  \* vector the caller holds (the last window it was returned)
  pc, op, arg, result, sumResult, held,
  \* each thread, during its current call: vectors allocated and cosines
  \* evaluated, the number of entries it found in each table when it read it
  \* (-1: not read), and whether it was made to wait for an initializer
  work, seenWin, seenSq,
  \* calculate_hann_window run one iteration at a time: its position, its
  \* argument, the loop variable i, the loop's state, the indices written
  loopPc, loopN, loopI, loopState, loopWritten

tableVars ==
  <<winOnce, winIdx, winLocal, HANN_WINDOW_LOOKUP_TABLE, winRuns,
    sqOnce, sqIdx, sqLocal, HANN_WINDOW_SUM_OF_SQUARES, sqRuns>>
winVars == <<winOnce, winIdx, winLocal, HANN_WINDOW_LOOKUP_TABLE, winRuns>>
sqVars == <<sqOnce, sqIdx, sqLocal, HANN_WINDOW_SUM_OF_SQUARES, sqRuns>>
threadVars == <<pc, op, arg, result, sumResult, held, work, seenWin, seenSq>>
loopVars == <<loopPc, loopN, loopI, loopState, loopWritten>>
vars == <<tableVars, threadVars, loopVars>>

NoResult == [tag |-> "None", val |-> <<>>, err |-> "none"]
NoWork == [allocs |-> 0, cosEvals |-> 0]

InitTables ==
  /\ winOnce = "INCOMPLETE" /\ winIdx = 0 /\ winLocal = EmptyTable
  /\ HANN_WINDOW_LOOKUP_TABLE = EmptyTable /\ winRuns = 0
  /\ sqOnce = "INCOMPLETE" /\ sqIdx = 0 /\ sqLocal = EmptyTable
  /\ HANN_WINDOW_SUM_OF_SQUARES = EmptyTable /\ sqRuns = 0

InitThreads ==
  /\ pc = [t \in Threads |-> "idle"]
  /\ op = [t \in Threads |-> "none"]
  /\ arg = [t \in Threads |-> 0]
  /\ result = [t \in Threads |-> NoResult]
  /\ sumResult = [t \in Threads |-> -1]
  /\ held = [t \in Threads |-> <<>>]
  /\ work = [t \in Threads |-> NoWork]
  /\ seenWin = [t \in Threads |-> -1]
  /\ seenSq = [t \in Threads |-> -1]

InitLoopOff ==
  /\ loopPc = "off" /\ loopN = 0 /\ loopI = 0
  /\ loopState = LoopStart(0) /\ loopWritten = {}

Init == InitTables /\ InitThreads /\ InitLoopOff

(***************************************************************************)
(* lazy_static: std::sync::Once                                            *)
(***************************************************************************)
\* whether a thread dereferencing the static becomes its initializer
OnceClaims(state) == state = "INCOMPLETE"

\* OnceReady without the wait for a running initializer
OnceReadyEarly(state) == state # "INCOMPLETE"

\* whether a thread dereferencing the static gets the stored value
OnceReady(state) == state = "COMPLETE"

AddWork(w, run) ==
  [allocs |-> w.allocs + run.allocs, cosEvals |-> w.cosEvals + run.cosEvals]

(***************************************************************************)
(* get_hann_window                                                         *)
(***************************************************************************)
\* get_hann_window without checks of its own, leaving them to
\* calculate_hann_window
GetNoEarlyError(window_length) == "none"

\* lines 61-72: the error get_hann_window returns before it touches the
\* lookup table, or "none"
GetEarlyError(window_length) == Validate(window_length)

\* lines 74-79 with a computed window inserted into the table on a miss
GetLookupCaching(table, window_length) ==
  IF window_length \in DOMAIN table
  THEN [result |-> Ok(table[window_length]), table |-> table,
        allocs |-> 1, cosEvals |-> 0]
  ELSE LET run == Calculate(window_length)
       IN  [result |-> run.result,
            table |-> IF run.result.tag = "Ok"
                      THEN Insert(table, window_length, run.result.val)
                      ELSE table,
            allocs |-> run.allocs, cosEvals |-> run.cosEvals]

\* lines 74-79, given the table the static holds: the Result, the table
\* afterwards, and the work done
GetLookup(table, window_length) ==
  IF window_length \in DOMAIN table
  THEN [result |-> Ok(table[window_length]), table |-> table,
        allocs |-> 1, cosEvals |-> 0]
  ELSE LET run == Calculate(window_length)
       IN  [result |-> run.result, table |-> table,
            allocs |-> run.allocs, cosEvals |-> run.cosEvals]

\* a caller enters get_hann_window(window_length); an invalid length returns
\* at once
CallGet(t, window_length) ==
  /\ pc[t] = "idle"
  /\ op' = [op EXCEPT ![t] = "get"]
  /\ arg' = [arg EXCEPT ![t] = window_length]
  /\ held' = [held EXCEPT ![t] = <<>>]
  /\ LET e == GetEarlyError(window_length)
     IN  IF e # "none"
         THEN /\ result' = [result EXCEPT ![t] = Err(e)]
              /\ pc' = [pc EXCEPT ![t] = "done"]
         ELSE /\ result' = result
              /\ pc' = [pc EXCEPT ![t] = "lookup"]
  /\ UNCHANGED <<sumResult, work, seenWin, seenSq, tableVars, loopVars>>

\* HANN_WINDOW_LOOKUP_TABLE.get(&window_length) and the rest of the function
GetFinish(t) ==
  /\ pc[t] = "lookup"
  /\ OnceReady(winOnce)
  /\ LET r == GetLookup(HANN_WINDOW_LOOKUP_TABLE, arg[t])
     IN  /\ result' = [result EXCEPT ![t] = r.result]
         /\ HANN_WINDOW_LOOKUP_TABLE' = r.table
         /\ work' = [work EXCEPT ![t] = AddWork(@, r)]
  /\ seenWin' = [seenWin EXCEPT ![t] = Cardinality(DOMAIN HANN_WINDOW_LOOKUP_TABLE)]
  /\ pc' = [pc EXCEPT ![t] = "done"]
  /\ UNCHANGED <<op, arg, sumResult, held, seenSq, loopVars, sqVars,
                 winOnce, winIdx, winLocal, winRuns>>

\* a caller calls calculate_hann_window(window_length) directly
CallCalculate(t, window_length) ==
  /\ pc[t] = "idle"
  /\ op' = [op EXCEPT ![t] = "calculate"]
  /\ arg' = [arg EXCEPT ![t] = window_length]
  /\ held' = [held EXCEPT ![t] = <<>>]
  /\ LET run == Calculate(window_length)
     IN  /\ result' = [result EXCEPT ![t] = run.result]
         /\ work' = [work EXCEPT ![t] = AddWork(@, run)]
  /\ pc' = [pc EXCEPT ![t] = "done"]
  /\ UNCHANGED <<sumResult, seenWin, seenSq, tableVars, loopVars>>

(***************************************************************************)
(* the initializer of HANN_WINDOW_LOOKUP_TABLE                             *)
(***************************************************************************)
\* the first dereference: from get_hann_window, or from an iteration of the
\* initializer of HANN_WINDOW_SUM_OF_SQUARES
WinInitBegin(t) ==
  /\ \/ pc[t] = "lookup"
     \/ pc[t] = "sq_init" /\ sqIdx < Len(SQ_PRECOMPUTED_LENGTHS)
  /\ OnceClaims(winOnce)
  /\ winOnce' = "RUNNING"
  /\ winRuns' = winRuns + 1
  /\ winIdx' = 0
  /\ winLocal' = EmptyTable
  /\ pc' = [pc EXCEPT ![t] = "win_init"]
  /\ UNCHANGED <<HANN_WINDOW_LOOKUP_TABLE, sqVars, op, arg, result, sumResult,
                 held, work, seenWin, seenSq, loopVars>>

\* WinEntry with the periodic variant of the window (denominator N instead
\* of N - 1): the first `length` coefficients of the window of length + 1
WinEntryPeriodic(length) ==
  LET run == Calculate(length + 1)
  IN  [run EXCEPT !.result = Ok(SubSeq(run.result.val, 1, length))]

\* calculate_hann_window(length), the value the initializer unwraps and
\* inserts for `length`
WinEntry(length) == Calculate(length)

\* one iteration of `for &length in &HANN_WINDOW_PRECOMPUTED_LENGTHS`
WinInitStep(t) ==
  /\ pc[t] = "win_init"
  /\ winIdx < Len(HANN_WINDOW_PRECOMPUTED_LENGTHS)
  /\ LET length == HANN_WINDOW_PRECOMPUTED_LENGTHS[winIdx + 1]
         run == WinEntry(length)
     IN  IF run.result.tag = "Err"
         THEN \* .expect("Failed to compute the Hann window") panics
              /\ pc' = [pc EXCEPT ![t] = "panicked"]
              /\ winOnce' = "POISONED"
              /\ UNCHANGED <<winIdx, winLocal, work>>
         ELSE /\ winLocal' = Insert(winLocal, length, run.result.val)
              /\ winIdx' = winIdx + 1
              /\ work' = [work EXCEPT ![t] = AddWork(@, run)]
              /\ UNCHANGED <<pc, winOnce>>
  /\ UNCHANGED <<HANN_WINDOW_LOOKUP_TABLE, winRuns, sqVars, op, arg, result,
                 sumResult, held, seenWin, seenSq, loopVars>>

\* the initializer returns `table`; the Once stores it and completes
WinInitEnd(t) ==
  /\ pc[t] = "win_init"
  /\ winIdx = Len(HANN_WINDOW_PRECOMPUTED_LENGTHS)
  /\ HANN_WINDOW_LOOKUP_TABLE' = winLocal
  /\ winLocal' = EmptyTable
  /\ winOnce' = "COMPLETE"
  /\ pc' = [pc EXCEPT ![t] = IF op[t] = "sum_squares" THEN "sq_init" ELSE "lookup"]
  /\ UNCHANGED <<winIdx, winRuns, sqVars, op, arg, result, sumResult, held,
                 work, seenWin, seenSq, loopVars>>

(***************************************************************************)
(* get_hann_window_sum_squares and the initializer of                      *)
(* HANN_WINDOW_SUM_OF_SQUARES                                              *)
(***************************************************************************)
\* lines 40-49, given the table the static holds
SumSquaresLookup(table, hann_window) ==
  IF Len(hann_window) \in DOMAIN table
  THEN table[Len(hann_window)]
  ELSE SumOfSquares(hann_window)

\* a caller enters get_hann_window_sum_squares(&held)
CallSumSquares(t) ==
  /\ pc[t] = "idle"
  /\ op' = [op EXCEPT ![t] = "sum_squares"]
  /\ pc' = [pc EXCEPT ![t] = "sq_lookup"]
  /\ UNCHANGED <<arg, result, sumResult, held, work, seenWin, seenSq,
                 tableVars, loopVars>>

SqInitBegin(t) ==
  /\ pc[t] = "sq_lookup"
  /\ OnceClaims(sqOnce)
  /\ sqOnce' = "RUNNING"
  /\ sqRuns' = sqRuns + 1
  /\ sqIdx' = 0
  /\ sqLocal' = EmptyTable
  /\ pc' = [pc EXCEPT ![t] = "sq_init"]
  /\ UNCHANGED <<HANN_WINDOW_SUM_OF_SQUARES, winVars, op, arg, result,
                 sumResult, held, work, seenWin, seenSq, loopVars>>

\* SqEntry summed over the computed half of the window only
SqEntryHalf(hann_window) ==
  SumOfSquares(SubSeq(hann_window, 1, half_length(Len(hann_window))))

\* hann_window.iter().map(|&x| x.powi(2)).sum(), the value the initializer
\* inserts for the window it took from HANN_WINDOW_LOOKUP_TABLE
SqEntry(hann_window) == SumOfSquares(hann_window)

\* one iteration of the initializer's loop, once HANN_WINDOW_LOOKUP_TABLE
\* can be read
SqInitStep(t) ==
  /\ pc[t] = "sq_init"
  /\ sqIdx < Len(SQ_PRECOMPUTED_LENGTHS)
  /\ OnceReady(winOnce)
  /\ LET length == SQ_PRECOMPUTED_LENGTHS[sqIdx + 1]
     IN  IF length \notin DOMAIN HANN_WINDOW_LOOKUP_TABLE
         THEN \* .expect("Failed to get the Hann window ...") panics
              /\ pc' = [pc EXCEPT ![t] = "panicked"]
              /\ sqOnce' = "POISONED"
              /\ UNCHANGED <<sqIdx, sqLocal>>
         ELSE /\ sqLocal' = Insert(sqLocal, length,
                                   SqEntry(HANN_WINDOW_LOOKUP_TABLE[length]))
              /\ sqIdx' = sqIdx + 1
              /\ UNCHANGED <<pc, sqOnce>>
  /\ seenWin' = [seenWin EXCEPT ![t] = Cardinality(DOMAIN HANN_WINDOW_LOOKUP_TABLE)]
  /\ UNCHANGED <<HANN_WINDOW_SUM_OF_SQUARES, sqRuns, winVars, op, arg, result,
                 sumResult, held, work, seenSq, loopVars>>

SqInitEnd(t) ==
  /\ pc[t] = "sq_init"
  /\ sqIdx = Len(SQ_PRECOMPUTED_LENGTHS)
  /\ HANN_WINDOW_SUM_OF_SQUARES' = sqLocal
  /\ sqLocal' = EmptyTable
  /\ sqOnce' = "COMPLETE"
  /\ pc' = [pc EXCEPT ![t] = "sq_lookup"]
  /\ UNCHANGED <<sqIdx, sqRuns, winVars, op, arg, result, sumResult, held,
                 work, seenWin, seenSq, loopVars>>

\* HANN_WINDOW_SUM_OF_SQUARES.get(&hann_window.len()) and the rest
SumSquaresFinish(t) ==
  /\ pc[t] = "sq_lookup"
  /\ OnceReady(sqOnce)
  /\ sumResult' = [sumResult EXCEPT ![t] =
                     SumSquaresLookup(HANN_WINDOW_SUM_OF_SQUARES, held[t])]
  /\ seenSq' = [seenSq EXCEPT ![t] = Cardinality(DOMAIN HANN_WINDOW_SUM_OF_SQUARES)]
  /\ pc' = [pc EXCEPT ![t] = "done"]
  /\ UNCHANGED <<op, arg, result, held, work, seenWin, tableVars, loopVars>>

(***************************************************************************)
(* the caller                                                              *)
(***************************************************************************)
\* the call has returned; the caller keeps a returned window
Return(t) ==
  /\ pc[t] = "done"
  /\ held' = [held EXCEPT ![t] = IF result[t].tag = "Ok" THEN result[t].val ELSE @]
  /\ pc' = [pc EXCEPT ![t] = "idle"]
  /\ op' = [op EXCEPT ![t] = "none"]
  /\ arg' = [arg EXCEPT ![t] = 0]
  /\ result' = [result EXCEPT ![t] = NoResult]
  /\ sumResult' = [sumResult EXCEPT ![t] = -1]
  /\ work' = [work EXCEPT ![t] = NoWork]
  /\ seenWin' = [seenWin EXCEPT ![t] = -1]
  /\ seenSq' = [seenSq EXCEPT ![t] = -1]
  /\ UNCHANGED <<tableVars, loopVars>>

\* the caller writes 1.0 to the first element of the window it holds
Mutate(t) ==
  /\ pc[t] = "idle"
  /\ held[t] # <<>>
  /\ held[t][1] # ONE
  /\ held' = [held EXCEPT ![t][1] = ONE]
  /\ UNCHANGED <<pc, op, arg, result, sumResult, work, seenWin, seenSq,
                 tableVars, loopVars>>

\* the call has returned; the caller drops what it was returned
ReturnDrop(t) ==
  /\ pc[t] = "done"
  /\ pc' = [pc EXCEPT ![t] = "idle"]
  /\ op' = [op EXCEPT ![t] = "none"]
  /\ arg' = [arg EXCEPT ![t] = 0]
  /\ result' = [result EXCEPT ![t] = NoResult]
  /\ sumResult' = [sumResult EXCEPT ![t] = -1]
  /\ work' = [work EXCEPT ![t] = NoWork]
  /\ seenWin' = [seenWin EXCEPT ![t] = -1]
  /\ seenSq' = [seenSq EXCEPT ![t] = -1]
  /\ UNCHANGED <<held, tableVars, loopVars>>

Internal(t) ==
  \/ GetFinish(t)
  \/ WinInitBegin(t)
  \/ WinInitStep(t)
  \/ WinInitEnd(t)
  \/ SqInitBegin(t)
  \/ SqInitStep(t)
  \/ SqInitEnd(t)
  \/ SumSquaresFinish(t)

(***************************************************************************)
(* Spec: one caller, any sequence of calls of the three public functions   *)
(***************************************************************************)
\* the one thread that calls in Spec: the first
Caller == CHOOSE t \in Threads : \A u \in Threads : t <= u

Next ==
  \/ \E n \in Lengths : CallGet(Caller, n)
  \/ \E n \in Lengths : CallCalculate(Caller, n)
  \/ CallSumSquares(Caller)
  \/ Internal(Caller)
  \/ Return(Caller)
  \/ Mutate(Caller)

Spec == Init /\ [][Next]_vars

(***************************************************************************)
(* SpecConc: NumThreads threads calling the two cached functions           *)
(***************************************************************************)
\* the lengths the threads pass: an invalid one, and one of the table
ConcLengths == {1, HANN_WINDOW_PRECOMPUTED_LENGTHS[1]}

NextConc ==
  \E t \in Threads :
    \/ \E n \in ConcLengths : CallGet(t, n)
    \/ CallSumSquares(t)
    \/ Internal(t)
    \/ ReturnDrop(t)

SpecConc == Init /\ [][NextConc]_vars

\* a thread that can take a step of the function it is in eventually takes
\* it: the scheduler runs every runnable thread, and a Once that completes
\* wakes the threads waiting on it
SpecLive == SpecConc /\ \A t \in Threads : WF_vars(Internal(t))

(***************************************************************************)
(* SpecLoop: calculate_hann_window, one iteration of its loop at a time    *)
(***************************************************************************)
InitLoop ==
  /\ InitTables /\ InitThreads
  /\ loopPc = "entry" /\ loopN \in LoopLengths /\ loopI = 0
  /\ loopState = LoopStart(0) /\ loopWritten = {}

\* lines 97-122: the checks, half_length, scaling_factor, the allocation
LoopEnter ==
  /\ loopPc = "entry"
  /\ IF Validate(loopN) # "none"
     THEN loopPc' = "error" /\ UNCHANGED loopState
     ELSE loopPc' = "loop" /\ loopState' = LoopStart(loopN)
  /\ UNCHANGED <<loopN, loopI, loopWritten, tableVars, threadVars>>

\* lines 126-129: one iteration
LoopIterate ==
  /\ loopPc = "loop"
  /\ loopI < half_length(loopN)
  /\ loopState' = LoopBody(loopState, loopN, loopI)
  /\ loopWritten' = loopWritten \cup
       {WriteIndices(loopN, loopI)[1], WriteIndices(loopN, loopI)[2]}
  /\ loopI' = loopI + 1
  /\ UNCHANGED <<loopPc, loopN, tableVars, threadVars>>

\* line 132: Ok(window)
LoopReturn ==
  /\ loopPc = "loop"
  /\ loopI >= half_length(loopN)
  /\ loopPc' = "returned"
  /\ UNCHANGED <<loopN, loopI, loopState, loopWritten, tableVars, threadVars>>

NextLoop == LoopEnter \/ LoopIterate \/ LoopReturn

SpecLoop == InitLoop /\ [][NextLoop]_vars

(***************************************************************************)
(* Properties                                                              *)
(***************************************************************************)
Returned(t, f) == pc[t] = "done" /\ op[t] = f

C2_SymmetricZeroEnded ==
  \A t \in Threads :
    (Returned(t, "get") /\ result[t].tag = "Ok") =>
      LET w == result[t].val
          N == Len(w)
      IN  /\ \A i \in 0..(N - 1) : w[i + 1] = w[(N - 1 - i) + 1]
          /\ w[0 + 1] = 0
          /\ w[(N - 1) + 1] = 0

\* a window of 4096 coefficients was served from the table
C2_Witness ==
  /\ Returned(Caller, "get")
  /\ arg[Caller] = 4096
  /\ result[Caller].tag = "Ok"
  /\ seenWin[Caller] = 5
  /\ work[Caller].cosEvals = 0

\* whether the caller holds the window get_hann_window returns for a length
\* of the table
HoldsTableWindow(t) ==
  /\ Len(held[t]) \in DOMAIN HANN_WINDOW_LOOKUP_TABLE
  /\ held[t] = HANN_WINDOW_LOOKUP_TABLE[Len(held[t])]

\* C3: for every length of the table, get_hann_window_sum_squares of the
\* window get_hann_window returns is the sum of squares of that window
\* computed directly; every entry of the sum-of-squares table is the sum of
\* squares of the window-table entry with the same key.
C3_SumSquaresConsistent ==
  /\ \A t \in Threads :
       (Returned(t, "sum_squares") /\ HoldsTableWindow(t)) =>
         sumResult[t] = SumOfSquares(held[t])
  /\ sqOnce = "COMPLETE" =>
       /\ DOMAIN HANN_WINDOW_SUM_OF_SQUARES = {256, 512, 1024, 2048, 4096}
       /\ \A n \in DOMAIN HANN_WINDOW_SUM_OF_SQUARES :
            /\ n \in DOMAIN HANN_WINDOW_LOOKUP_TABLE
            /\ HANN_WINDOW_SUM_OF_SQUARES[n] =
                 SumOfSquares(HANN_WINDOW_LOOKUP_TABLE[n])

\* the sum of squares of the unmodified window of length 1024 was returned
\* from the table
C3_Witness ==
  /\ Returned(Caller, "sum_squares")
  /\ Len(held[Caller]) = 1024
  /\ HoldsTableWindow(Caller)
  /\ sumResult[Caller] = HANN_WINDOW_SUM_OF_SQUARES[1024]

\* C4: get_hann_window_sum_squares returns the sum of squares of the
\* elements of the vector it is passed, whatever the vector.
C4_SumOfSquaresOfArgument ==
  \A t \in Threads :
    Returned(t, "sum_squares") => sumResult[t] = SumOfSquares(held[t])

\* C5: get_hann_window(L) has the outcome of calculate_hann_window(L), the
\* same error or an equal sequence, for every L and after any calls.
C5_CacheTransparent ==
  \A t \in Threads :
    Returned(t, "get") => result[t] = calculate_hann_window(arg[t])

\* a window was served from the table without a cosine being evaluated
C5_Witness ==
  /\ Returned(Caller, "get")
  /\ arg[Caller] = 512
  /\ result[Caller].tag = "Ok"
  /\ work[Caller] = [allocs |-> 1, cosEvals |-> 0]

\* C6: each initializer is started at most once (exactly once when its table
\* is complete), and a thread that reads a table finds all five entries: no
\* call returns a lookup result before the population has completed.
C6_InitOnceNoPartialRead ==
  /\ winRuns <= 1 /\ sqRuns <= 1
  /\ winOnce = "COMPLETE" => winRuns = 1
  /\ sqOnce = "COMPLETE" => sqRuns = 1
  /\ \A t \in Threads :
       /\ seenWin[t] \in {-1, 5}
       /\ seenSq[t] \in {-1, 5}
       /\ (Returned(t, "get") /\ result[t].tag = "Ok") =>
            (winOnce = "COMPLETE" /\ seenWin[t] = 5)
       /\ Returned(t, "sum_squares") =>
            (sqOnce = "COMPLETE" /\ seenSq[t] = 5)

\* one thread is half way through populating the window table while another
\* has made its first access to it
C6_Witness ==
  \E t1, t2 \in Threads :
    /\ t1 # t2
    /\ pc[t1] = "win_init" /\ winIdx = 3
    /\ pc[t2] = "lookup" /\ arg[t2] = 256

C9_HalfLoopCoversWindow ==
  (loopPc \in {"loop", "returned"}) =>
    LET N == loopN
        ceilHalf == (N + 1) \div 2
    IN  /\ loopI <= ceilHalf
        /\ loopState.cosEvals = loopI
        /\ Len(loopState.window) = N
        /\ loopWritten \subseteq 0..(N - 1)
        /\ loopWritten = (0..(loopI - 1)) \cup ((N - loopI)..(N - 1))
        /\ loopPc = "returned" =>
             /\ loopState.cosEvals = ceilHalf
             /\ loopWritten = 0..(N - 1)
             /\ Ok(loopState.window) = calculate_hann_window(N)

\* the loop has returned for an odd length, whose middle index is its own
\* mirror
C9_Witness ==
  /\ loopPc = "returned"
  /\ loopN = 5
  /\ loopI = 3
  /\ loopWritten = 0..4

\* C10: no thread panics in an initializer, a running initializer completes,
\* and every call of get_hann_window and get_hann_window_sum_squares returns.
C10_InitCompletesCallsReturn ==
  /\ \A t \in Threads : [](pc[t] # "panicked")
  /\ (winOnce = "RUNNING") ~> (winOnce = "COMPLETE")
  /\ (sqOnce = "RUNNING") ~> (sqOnce = "COMPLETE")
  /\ \A t \in Threads :
       (pc[t] \in {"lookup", "sq_lookup", "win_init", "sq_init"})
         ~> (pc[t] = "done")

\* the initializer of the sum-of-squares table is waiting for another thread
\* to finish the initializer of the window table
C10_Witness ==
  \E t1, t2 \in Threads :
    /\ t1 # t2
    /\ pc[t1] = "sq_init" /\ sqIdx = 0
    /\ pc[t2] = "win_init" /\ winOnce = "RUNNING"
====
